---- MODULE Spec2Model ----
(***************************************************************************)
(* Profile persistence and deduplication engine of the LinkedIn scraper    *)
(* database: ProfileManager.save_profile / delete_profile over the four    *)
(* tables persons, experiences, educations and profile_history.            *)
(*                                                                         *)
(* A Python dict is a function whose DOMAIN is the set of keys present; a  *)
(* table is the set of its rows; a session is a working copy of the        *)
(* database plus the objects added to it and not yet flushed.              *)
(***************************************************************************)
EXTENDS Integers, Sequences, FiniteSets, TLC

VARIABLES
    db,       \* the committed database: [persons, experiences, educations, profile_history]
    now,      \* the value datetime.now() returns to the call in progress
    last,     \* the last call: its arguments, its outcome, the database before it, and
              \* whether it repeats the record of a save that committed just before
    commits,  \* person id -> number of save_profile calls committed for that row
    deleted,  \* what the hard deletes removed: each Profile's rows of the four tables
    inflight  \* session name -> the save_profile call in progress in it, when the
              \* calls are not executed one at a time

vars == <<db, now, last, commits, deleted, inflight>>

\* Python None, SQL NULL
None == "<None>"

-----------------------------------------------------------------------------
(* Bounds                                                                  *)

\* number of calls in one behaviour
MaxTime == 3

-----------------------------------------------------------------------------
(* Python dict and truthiness                                              *)

\* dict.get(k): None when the key is missing
Get(d, k) == IF k \in DOMAIN d THEN d[k] ELSE None

\* dict.get(k, default)
GetDefault(d, k, default) == IF k \in DOMAIN d THEN d[k] ELSE default

\* truth value of a str-or-None: None and '' are false
Truthy(v) == v # None /\ v # ""

\* truth value of data.get(k) for a list-valued key: missing and [] are false
HasItems(d, k) == k \in DOMAIN d /\ Len(d[k]) > 0

\* str(v) of a str
Str(v) == v

Max(S) == CHOOSE x \in S : \A y \in S : y <= x

Min(S) == CHOOSE x \in S : \A y \in S : x <= y

\* the rowid SQLite gives the next row of a table declared INTEGER PRIMARY KEY
NextId(rows) == IF rows = {} THEN 1 ELSE Max({r.id : r \in rows}) + 1

-----------------------------------------------------------------------------
(* Schema: the constraints the database checks on INSERT. The NOT NULL      *)
(* columns that take a value from the record; person_id, changed_at and    *)
(* the timestamps, NOT NULL too, are always given a value by the code.     *)

NotNullPerson == {"linkedin_url", "name"}
NotNullExperience == {"position_title", "company_name"}
NotNullEducation == {"institution_name"}
NotNullHistory == {"changed_field"}

NotNullOf(table) ==
    CASE table = "persons" -> NotNullPerson
      [] table = "experiences" -> NotNullExperience
      [] table = "educations" -> NotNullEducation
      [] table = "profile_history" -> NotNullHistory

\* an INSERT check without the unique index on persons.linkedin_url
InsertAcceptedNoUnique(st, table, row) ==
    \A c \in NotNullOf(table) : row[c] # None

\* whether INSERT of row into table is accepted: NOT NULL columns, and the
\* unique index on persons.linkedin_url
InsertAccepted(st, table, row) ==
    /\ \A c \in NotNullOf(table) : row[c] # None
    /\ table = "persons" =>
           \A p \in st.persons : p.linkedin_url # row.linkedin_url

EmptyDb ==
    [persons |-> {}, experiences |-> {}, educations |-> {}, profile_history |-> {}]

-----------------------------------------------------------------------------
(* Session: unit of work                                                   *)

\* DatabaseManager.get_session: a session sees the committed database, has
\* nothing pending and no transaction begun
GetSession(d) ==
    [st |-> d, pending |-> <<>>, err |-> "", is_open |-> TRUE, tx |-> "none"]

\* the first statement a session sends begins its transaction
Begin(s) == [s EXCEPT !.tx = "active"]

\* session.add(obj)
Add(s, table, row) ==
    [s EXCEPT !.pending = Append(@, [table |-> table, row |-> row])]

\* INSERT of one pending object: the row gets the table's next rowid
InsertOne(s, obj) ==
    IF s.err # "" THEN s
    ELSE IF ~InsertAccepted(s.st, obj.table, obj.row)
         THEN [s EXCEPT !.err = "IntegrityError"]
         ELSE LET row == [obj.row EXCEPT !.id = NextId(s.st[obj.table])]
              IN  [s EXCEPT !.st[obj.table] = @ \cup {row}]

RECURSIVE InsertAll(_, _)
InsertAll(s, objs) ==
    IF objs = <<>> THEN s
    ELSE InsertAll(InsertOne(s, Head(objs)), Tail(objs))

\* session.flush(): the pending objects are inserted in the order they were
\* added; the first rejected INSERT raises
Flush(s) ==
    IF s.err # "" THEN s
    ELSE [InsertAll(s, s.pending) EXCEPT !.pending = <<>>]

\* session.commit(): flush, then the working copy becomes the database; a
\* flush that raises leaves the transaction to be rolled back
Commit(s) ==
    LET f == Flush(s)
    IN  [f EXCEPT !.tx = IF f.err = "" THEN "committed" ELSE "active"]

\* a rollback that leaves the session's writes in place
RollbackKeepsWrites(d, s) == s.st

\* session.rollback(): the database is as it was before the session wrote
Rollback(d, s) == d

\* session.rollback(): the session after it, nothing pending
RolledBack(s) == [s EXCEPT !.pending = <<>>, !.tx = "rolledback"]

\* an attribute of an object expired by the commit is read: the session
\* reloads the row in a new transaction
Refresh(s) == Begin(s)

\* an exit that leaves the session as it is
CloseSkipped(s) == s

\* session.close(): the connection is released, a transaction still in
\* progress is rolled back and pending objects are dropped
Close(s) ==
    [s EXCEPT !.is_open = FALSE, !.pending = <<>>,
              !.tx = IF @ = "active" THEN "rolledback" ELSE @]

\* what a call leaves of the sessions it opened
NoSession == [opened |-> 0, is_open |-> FALSE, tx |-> "none", pending |-> 0]
Status(s) ==
    [opened |-> 1, is_open |-> s.is_open, tx |-> s.tx, pending |-> Len(s.pending)]

\* session.add(obj) for each object of a list, in order
RECURSIVE AddAll(_, _, _)
AddAll(s, table, rows) ==
    IF rows = <<>> THEN s
    ELSE AddAll(Add(s, table, Head(rows)), table, Tail(rows))

-----------------------------------------------------------------------------
(* Rows built from the incoming record                                     *)

\* Person(...) of _create_profile; is_active takes the column default
NewPerson(data, t) ==
    [id |-> 0,
     linkedin_url |-> data["linkedin_url"],
     name |-> GetDefault(data, "name", "Unknown"),
     location |-> Get(data, "location"),
     current_job_title |-> Get(data, "job_title"),
     current_company |-> Get(data, "company"),
     about |-> Get(data, "about"),
     first_scraped_at |-> t,
     last_scraped_at |-> t,
     scrape_count |-> 1,
     is_active |-> TRUE]

\* an Experience whose company_name is read from the entry's 'company'
NewExperienceFromCompanyKey(person_id, exp_data, t) ==
    [id |-> 0,
     person_id |-> person_id,
     position_title |-> GetDefault(exp_data, "position_title", ""),
     company_name |-> GetDefault(exp_data, "company", ""),
     location |-> Get(exp_data, "location"),
     from_date |-> Get(exp_data, "from_date"),
     to_date |-> Get(exp_data, "to_date"),
     duration |-> Get(exp_data, "duration"),
     description |-> Get(exp_data, "description"),
     created_at |-> t]

\* Experience(...): company_name is read from the entry's 'institution_name'
NewExperience(person_id, exp_data, t) ==
    [id |-> 0,
     person_id |-> person_id,
     position_title |-> GetDefault(exp_data, "position_title", ""),
     company_name |-> GetDefault(exp_data, "institution_name", ""),
     location |-> Get(exp_data, "location"),
     from_date |-> Get(exp_data, "from_date"),
     to_date |-> Get(exp_data, "to_date"),
     duration |-> Get(exp_data, "duration"),
     description |-> Get(exp_data, "description"),
     created_at |-> t]

\* Education(...): field_of_study is never taken from the entry
NewEducation(person_id, edu_data, t) ==
    [id |-> 0,
     person_id |-> person_id,
     institution_name |-> GetDefault(edu_data, "institution_name", ""),
     degree |-> Get(edu_data, "degree"),
     field_of_study |-> None,
     from_date |-> Get(edu_data, "from_date"),
     to_date |-> Get(edu_data, "to_date"),
     description |-> Get(edu_data, "description"),
     created_at |-> t]

\* ProfileHistory(...): an empty or null value is recorded as NULL
NewHistory(person_id, field, old_val, new_val, t) ==
    [id |-> 0,
     person_id |-> person_id,
     changed_field |-> field,
     old_value |-> IF Truthy(old_val) THEN Str(old_val) ELSE None,
     new_value |-> IF Truthy(new_val) THEN Str(new_val) ELSE None,
     changed_at |-> t]

ExperiencesOf(data, person_id, t) ==
    [i \in 1..Len(data["experiences"]) |->
        NewExperience(person_id, data["experiences"][i], t)]

EducationsOf(data, person_id, t) ==
    [i \in 1..Len(data["educations"]) |->
        NewEducation(person_id, data["educations"][i], t)]

-----------------------------------------------------------------------------
(* ProfileManager._create_profile                                          *)

\* the person is added and flushed (its INSERT may raise), then the children
\* are added to the session with the id the flush assigned
CreateProfile(s, data, t) ==
    LET person_id == NextId(s.st.persons)
        s1 == Flush(Add(s, "persons", NewPerson(data, t)))
        s2 == IF HasItems(data, "experiences")
              THEN AddAll(s1, "experiences", ExperiencesOf(data, person_id, t))
              ELSE s1
        s3 == IF HasItems(data, "educations")
              THEN AddAll(s2, "educations", EducationsOf(data, person_id, t))
              ELSE s2
    IN  IF s1.err # "" THEN s1 ELSE s3

-----------------------------------------------------------------------------
(* ProfileManager._update_profile                                          *)

\* fields_to_check: the Person attribute and the key of the record it is
\* compared with, in the dict's order
FieldsToCheck ==
    << [field |-> "name", key |-> "name"],
       [field |-> "location", key |-> "location"],
       [field |-> "current_job_title", key |-> "job_title"],
       [field |-> "current_company", key |-> "company"],
       [field |-> "about", key |-> "about"] >>

\* a condition that does not compare with the stored value
FieldChangedIfGiven(person, data, fc) == Truthy(Get(data, fc.key))

\* a condition that does not test the incoming value for emptiness
FieldChangedIfDiffers(person, data, fc) == person[fc.field] # Get(data, fc.key)

\* the condition of the loop: the incoming value is truthy and differs
FieldChanged(person, data, fc) ==
    /\ Truthy(Get(data, fc.key))
    /\ person[fc.field] # Get(data, fc.key)

\* changes: (field, old_value, new_value) of every field the loop overwrote
Changes(person, data) ==
    LET changed == SelectSeq(FieldsToCheck, LAMBDA fc : FieldChanged(person, data, fc))
    IN  [i \in 1..Len(changed) |->
            [field |-> changed[i].field,
             old_value |-> person[changed[i].field],
             new_value |-> Get(data, changed[i].key)]]

\* the person after the loop's setattr calls
WithChanges(person, changes) ==
    [f \in DOMAIN person |->
        IF \E i \in 1..Len(changes) : changes[i].field = f
        THEN LET i == CHOOSE j \in 1..Len(changes) : changes[j].field = f
             IN  changes[i].new_value
        ELSE person[f]]

\* an update that leaves scrape_count alone
TouchKeepsCount(person, t) == [person EXCEPT !.last_scraped_at = t]

\* a touch that also reactivates the Profile
TouchReactivates(person, t) ==
    [person EXCEPT !.last_scraped_at = t, !.scrape_count = @ + 1,
                   !.is_active = TRUE]

\* a touch that also resets first_scraped_at
TouchResetsFirstSeen(person, t) ==
    [person EXCEPT !.first_scraped_at = t, !.last_scraped_at = t,
                   !.scrape_count = @ + 1]

\* last_scraped_at and scrape_count, set on every update
Touch(person, t) ==
    [person EXCEPT !.last_scraped_at = t, !.scrape_count = @ + 1]

\* history objects added whether or not track_changes is set
HistoryAlways(person, changes, track_changes, t) ==
    [i \in 1..Len(changes) |->
        NewHistory(person.id, changes[i].field, changes[i].old_value,
                   changes[i].new_value, t)]

\* the history objects added when track_changes is set
HistoryOf(person, changes, track_changes, t) ==
    IF track_changes
    THEN [i \in 1..Len(changes) |->
            NewHistory(person.id, changes[i].field, changes[i].old_value,
                       changes[i].new_value, t)]
    ELSE <<>>

\* a bulk delete without the filter on person_id
BulkDeleteAll(s, table, person_id) ==
    LET f == Flush(s)
    IN  IF f.err # "" THEN f
        ELSE [f EXCEPT !.st[table] = {}]

\* a bulk delete that also clears the Profile's History
BulkDeleteWithHistory(s, table, person_id) ==
    LET f == Flush(s)
    IN  IF f.err # "" THEN f
        ELSE [f EXCEPT !.st[table] = {r \in @ : r.person_id # person_id},
                       !.st.profile_history = {r \in @ : r.person_id # person_id}]

\* session.query(Table).filter(Table.person_id == id).delete(): the session
\* flushes what is pending (which may raise), then the rows are deleted
BulkDelete(s, table, person_id) ==
    LET f == Flush(s)
    IN  IF f.err # "" THEN f
        ELSE [f EXCEPT !.st[table] = {r \in @ : r.person_id # person_id}]

\* experiences added without deleting the stored ones
AppendExperiences(s, person, data, t) ==
    IF s.err = "" /\ HasItems(data, "experiences")
    THEN AddAll(s, "experiences", ExperiencesOf(data, person.id, t))
    ELSE s

ReplaceExperiences(s, person, data, t) ==
    IF s.err = "" /\ HasItems(data, "experiences")
    THEN LET d == BulkDelete(s, "experiences", person.id)
         IN  IF d.err # "" THEN d
             ELSE AddAll(d, "experiences", ExperiencesOf(data, person.id, t))
    ELSE s

\* educations added without deleting the stored ones
AppendEducations(s, person, data, t) ==
    IF s.err = "" /\ HasItems(data, "educations")
    THEN AddAll(s, "educations", EducationsOf(data, person.id, t))
    ELSE s

ReplaceEducations(s, person, data, t) ==
    IF s.err = "" /\ HasItems(data, "educations")
    THEN LET d == BulkDelete(s, "educations", person.id)
         IN  IF d.err # "" THEN d
             ELSE AddAll(d, "educations", EducationsOf(data, person.id, t))
    ELSE s

UpdateProfile(s, person, data, track_changes, t) ==
    LET changes == Changes(person, data)
        updated == Touch(WithChanges(person, changes), t)
        s1 == [s EXCEPT !.st.persons = (@ \ {person}) \cup {updated}]
        s2 == AddAll(s1, "profile_history",
                     HistoryOf(person, changes, track_changes, t))
        s3 == ReplaceExperiences(s2, person, data, t)
    IN  ReplaceEducations(s3, person, data, t)

-----------------------------------------------------------------------------
(* ProfileManager.save_profile                                             *)

\* a check that rejects only a linkedin_url of None
UrlIsNone(linkedin_url) == linkedin_url = None

\* `if not linkedin_url`
UrlMissing(linkedin_url) == ~Truthy(linkedin_url)

\* a lookup that skips deactivated profiles
PersonByUrlActiveOnly(st, url) ==
    {p \in st.persons : p.linkedin_url = url /\ p.is_active}

\* query(Person).filter(Person.linkedin_url == url).first()
PersonByUrl(st, url) == {p \in st.persons : p.linkedin_url = url}

First(rows) == CHOOSE r \in rows : r.id = Min({q.id : q \in rows})

\* the whole call at time t on database d: the database it leaves, what the
\* caller gets ("ok" or the exception raised), the path taken, the id of
\* the Person returned and what is left of the session. The session is
\* obtained first, the linkedin_url is checked inside the try block.
SaveResult(d, data, track_changes, t) ==
    LET s0 == GetSession(d)
        linkedin_url == Get(data, "linkedin_url")
        existing == PersonByUrl(s0.st, linkedin_url)
    IN  IF UrlMissing(linkedin_url)
        THEN [db |-> Rollback(d, s0), result |-> "ValueError",
              path |-> "none", id |-> 0,
              session |-> Status(Close(RolledBack(s0)))]
        ELSE LET path == IF existing # {} THEN "update" ELSE "create"
                 id == IF existing # {} THEN First(existing).id
                       ELSE NextId(s0.st.persons)
                 s1 == IF existing # {}
                       THEN UpdateProfile(Begin(s0), First(existing), data,
                                          track_changes, t)
                       ELSE CreateProfile(Begin(s0), data, t)
                 s2 == Commit(s1)
             IN  IF s2.err # ""
                 THEN [db |-> Rollback(d, s2), result |-> s2.err,
                       path |-> path, id |-> id,
                       session |-> Status(Close(RolledBack(s2)))]
                 ELSE [db |-> s2.st, result |-> "ok", path |-> path, id |-> id,
                       session |-> Status(Close(Refresh(s2)))]

-----------------------------------------------------------------------------
(* ProfileManager.delete_profile                                           *)

\* the Profile a row belongs to
Owner(table, row) == IF table = "persons" THEN row.id ELSE row.person_id

\* the rows of the four tables that belong to one Profile
GraphOf(st, id) == [table \in DOMAIN st |-> {r \in st[table] : Owner(table, r) = id}]

\* every Profile id that owns a row of st
OwnersIn(st) == UNION {{Owner(table, r) : r \in st[table]} : table \in DOMAIN st}

NoRows == [table \in DOMAIN EmptyDb |-> {}]

\* query(Person).get(person_id)
PersonById(st, person_id) == {p \in st.persons : p.id = person_id}

\* is_active = False; the UPDATE this flushes also sets last_scraped_at, whose
\* column has onupdate=datetime.now. No UPDATE is issued when nothing changed.
Deactivate(person, t) ==
    IF person.is_active
    THEN [person EXCEPT !.is_active = FALSE, !.last_scraped_at = t]
    ELSE person

\* a delete whose cascade leaves the History rows
DeleteKeepsHistory(st, person) ==
    [persons |-> st.persons \ {person},
     experiences |-> {r \in st.experiences : r.person_id # person.id},
     educations |-> {r \in st.educations : r.person_id # person.id},
     profile_history |-> st.profile_history]

\* a delete whose cascade leaves the experiences and educations
DeleteKeepsChildren(st, person) ==
    [st EXCEPT !.persons = @ \ {person},
               !.profile_history = {r \in @ : r.person_id # person.id}]

\* a delete whose relationships do not cascade
DeleteNoCascade(st, person) == [st EXCEPT !.persons = @ \ {person}]

\* session.delete(person): the relationships cascade to the rows it owns
DeleteCascade(st, person) ==
    [persons |-> st.persons \ {person},
     experiences |-> {r \in st.experiences : r.person_id # person.id},
     educations |-> {r \in st.educations : r.person_id # person.id},
     profile_history |-> {r \in st.profile_history : r.person_id # person.id}]

\* a delete that raises when no row has the id
MissingRaises(s) ==
    [db |-> s.st, result |-> "ValueError", found |-> FALSE,
     session |-> Status(Close(s))]

\* no row has the id: a warning is logged, nothing is written
Missing(s) ==
    [db |-> s.st, result |-> "ok", found |-> FALSE,
     session |-> Status(Close(s))]

\* the whole call at time t on database d. After the soft delete's commit the
\* log line reads person.name, which the commit expired; the hard delete's
\* log line reads it from an object that left the session at the flush.
DeleteResult(d, person_id, soft_delete, t) ==
    LET s0 == Begin(GetSession(d))
        found == PersonById(s0.st, person_id)
    IN  IF found # {}
        THEN LET person == First(found)
             IN  IF soft_delete
                 THEN LET s1 == Commit([s0 EXCEPT !.st.persons =
                                   (@ \ {person}) \cup {Deactivate(person, t)}])
                      IN  [db |-> s1.st, result |-> "ok", found |-> TRUE,
                           session |-> Status(Close(Refresh(s1)))]
                 ELSE LET s1 == Commit([s0 EXCEPT !.st =
                                            DeleteCascade(@, person)])
                      IN  [db |-> s1.st, result |-> "ok", found |-> TRUE,
                           session |-> Status(Close(s1))]
        ELSE Missing(s0)

-----------------------------------------------------------------------------
(* The records and ids the calls are made with                             *)

NoKeys == [k \in {} |-> None]

\* the dicts with the one key k, and those in which k may also be missing
Key(k, values) == {k :> v : v \in values}
Optional(k, values) == {NoKeys} \cup Key(k, values)

\* work-history entries: complete, some keys missing, title missing, title null
Exp1 ==
    [position_title |-> "Engineer", institution_name |-> "Acme",
     location |-> "Berlin", from_date |-> "2019", to_date |-> "2021",
     duration |-> "2 yrs", description |-> "backend"]
Exp2 == [position_title |-> "Manager", institution_name |-> "Globex"]
Exp3 == [institution_name |-> "Initech", location |-> None]
ExpNull == [position_title |-> None, institution_name |-> "Acme"]

\* education entries: complete, institution missing, institution null
Edu1 ==
    [institution_name |-> "MIT", degree |-> "BSc", from_date |-> "2010",
     to_date |-> "2014", description |-> "cs"]
Edu2 == [degree |-> "MSc"]
EduNull == [institution_name |-> None, degree |-> "PhD"]

\* the calls of the lifecycle specification: two subjects, a missing and an
\* empty linkedin_url, a company that changes, children that are absent,
\* accepted, or rejected by the database
PersonData ==
    {u @@ n @@ c @@ e :
        u \in Optional("linkedin_url", {""}),
        n \in Key("name", {"A"}),
        c \in Key("company", {"X"}),
        e \in {[experiences |-> <<>>, educations |-> <<>>]}}
    \cup
    {u @@ n @@ c @@ e :
        u \in Key("linkedin_url", {"u1", "u2"}),
        n \in Key("name", {"A"}),
        c \in Key("company", {"X", "Y"}),
        e \in {[experiences |-> <<>>, educations |-> <<>>],
               [experiences |-> <<Exp1, Exp2>>, educations |-> <<Edu1>>],
               [experiences |-> <<Exp1, ExpNull>>, educations |-> <<Edu1>>]}}

\* the four scalar keys _update_profile reads with data.get(key)
OtherKeys == {"location", "job_title", "company", "about"}

\* the calls of the scalar specification: one subject; name missing, null,
\* empty or one of two names; the other four scalars null, empty or one of
\* two values; no children
ScalarData ==
    {u @@ n @@ o :
        u \in Key("linkedin_url", {"u1"}),
        n \in Optional("name", {None, "", "A", "B"}),
        o \in {[k \in OtherKeys |-> v] : v \in {None, "", "X", "Y"}}}

\* the calls of the children specification: one subject, each list missing,
\* empty, of one or two accepted entries, or holding a rejected entry
ChildData ==
    {u @@ n @@ e @@ g :
        u \in Key("linkedin_url", {"u1"}),
        n \in Key("name", {"A"}),
        e \in Optional("experiences",
                       {<<>>, <<Exp1>>, <<Exp2, Exp3>>, <<Exp1, ExpNull>>}),
        g \in Optional("educations",
                       {<<>>, <<Edu1>>, <<Edu2, Edu1>>, <<EduNull>>})}

\* rowids are given out from 1, one per committed create at most
PersonIds == 1..MaxTime

-----------------------------------------------------------------------------
(* The calls                                                               *)

\* the threads or processes that call save_profile at the same time
Sessions == {"s1", "s2"}

\* no call in progress
Idle ==
    [pc |-> "idle", data |-> NoKeys, track_changes |-> FALSE, existing |-> {},
     at |-> 0, pre |-> EmptyDb, s |-> Close(GetSession(EmptyDb))]

NoCall ==
    [op |-> "none", data |-> NoKeys, track_changes |-> FALSE, person_id |-> 0,
     soft_delete |-> FALSE, result |-> "ok", path |-> "none", id |-> 0,
     found |-> FALSE, pre |-> EmptyDb, at |-> 0, repeat |-> FALSE,
     session |-> NoSession]

Init ==
    /\ db = EmptyDb
    /\ now = 0
    /\ last = NoCall
    /\ commits = NoKeys
    /\ deleted = {}
    /\ inflight = [k \in Sessions |-> Idle]

\* pm.save_profile(data, track_changes)
SaveProfile(data, track_changes) ==
    LET r == SaveResult(db, data, track_changes, now)
    IN  /\ now < MaxTime
        /\ db' = r.db
        /\ now' = now + 1
        /\ last' = [NoCall EXCEPT !.op = "save", !.data = data,
                       !.track_changes = track_changes, !.result = r.result,
                       !.path = r.path, !.id = r.id, !.pre = db, !.at = now,
                       !.session = r.session,
                       !.repeat = (last.op = "save" /\ last.result = "ok"
                                   /\ last.data = data)]
        /\ commits' =
              IF r.result # "ok" THEN commits
              ELSE IF r.path = "create" THEN (r.id :> 1) @@ commits
              ELSE [commits EXCEPT ![r.id] = @ + 1]
        /\ UNCHANGED <<deleted, inflight>>

\* pm.delete_profile(person_id, soft_delete)
DeleteProfile(person_id, soft_delete) ==
    LET r == DeleteResult(db, person_id, soft_delete, now)
    IN  /\ now < MaxTime
        /\ db' = r.db
        /\ now' = now + 1
        /\ last' = [NoCall EXCEPT !.op = "delete", !.person_id = person_id,
                       !.soft_delete = soft_delete, !.result = r.result,
                       !.found = r.found, !.pre = db, !.at = now,
                       !.session = r.session]
        /\ commits' =
              IF r.found /\ ~soft_delete
              THEN [i \in DOMAIN commits \ {person_id} |-> commits[i]]
              ELSE commits
        /\ deleted' =
              IF r.found /\ ~soft_delete
              THEN deleted \cup {GraphOf(db, person_id)}
              ELSE deleted
        /\ UNCHANGED inflight

Next ==
    \/ \E data \in PersonData, track_changes \in BOOLEAN :
          SaveProfile(data, track_changes)
    \/ \E person_id \in PersonIds, soft_delete \in BOOLEAN :
          DeleteProfile(person_id, soft_delete)

Spec == Init /\ [][Next]_vars

NextScalars ==
    \E data \in ScalarData, track_changes \in BOOLEAN :
        SaveProfile(data, track_changes)

SpecScalars == Init /\ [][NextScalars]_vars

\* track_changes is left to its default, True
NextChildren == \E data \in ChildData : SaveProfile(data, TRUE)

SpecChildren == Init /\ [][NextChildren]_vars

-----------------------------------------------------------------------------
(* Reading the tables                                                      *)

PersonRow(st, id) == CHOOSE p \in st.persons : p.id = id

RowsOf(rows, person_id) == {r \in rows : r.person_id = person_id}

\* the rows of a set in rowid order
RECURSIVE InIdOrder(_)
InIdOrder(rows) ==
    IF rows = {} THEN <<>>
    ELSE LET r == CHOOSE x \in rows : \A y \in rows : x.id <= y.id
         IN  <<r>> \o InIdOrder(rows \ {r})

\* what a child row says: every column but its rowid and created_at
Content(row) == [k \in DOMAIN row \ {"id", "created_at"} |-> row[k]]

ContentsOf(rows, person_id) ==
    LET ordered == InIdOrder(RowsOf(rows, person_id))
    IN  [i \in 1..Len(ordered) |-> Content(ordered[i])]

ScalarFields == {"name", "location", "current_job_title", "current_company", "about"}

Scalars(person) == [f \in ScalarFields |-> person[f]]

LastUrl == Get(last.data, "linkedin_url")

Saved == last.op = "save"
Committed == last.op = "save" /\ last.result = "ok"
Updated == Committed /\ last.path = "update"
Created == Committed /\ last.path = "create"

-----------------------------------------------------------------------------
(* Claims                                                                  *)

\* C1: the store holds at most one Profile row per external identifier, and
\* a save whose identifier is that of an existing row takes the update path
\* on that row and inserts no Profile row.
C1_OneRowPerUrl ==
    /\ \A p, q \in db.persons : p.linkedin_url = q.linkedin_url => p = q
    /\ \A p \in last.pre.persons :
          (Saved /\ p.linkedin_url = LastUrl) =>
              /\ last.path = "update"
              /\ last.id = p.id
              /\ {q.id : q \in db.persons} = {q.id : q \in last.pre.persons}

\* a committed update of one subject while the other subject is stored too
C1_Witness ==
    /\ Updated
    /\ Cardinality(db.persons) = 2
    /\ \E p \in last.pre.persons : p.linkedin_url = LastUrl

\* C2: a save that raises after its unit of work began writing leaves the
\* whole database (the Profile's scalars, touch counter and last-seen, its
\* History, Experience and Education rows) as it was before the call.
C2_RolledBack ==
    (Saved /\ last.result = "IntegrityError") => db = last.pre

\* an update that changed a scalar with tracking on, deleted the stored
\* experiences, and then had a child INSERT rejected
C2_Witness ==
    /\ Saved
    /\ last.result = "IntegrityError"
    /\ last.path = "update"
    /\ last.track_changes
    /\ Changes(PersonRow(last.pre, last.id), last.data) # <<>>
    /\ RowsOf(last.pre.experiences, last.id) # {}
    /\ HasItems(last.data, "experiences")

\* C3: every Experience, Education and History row references a Profile row
\* of the store.
C3_NoOrphans ==
    \A r \in db.experiences \cup db.educations \cup db.profile_history :
        \E p \in db.persons : p.id = r.person_id

\* a hard delete of a Profile that owned rows of all three kinds
C3_Witness ==
    /\ last.op = "delete"
    /\ ~last.soft_delete
    /\ last.found
    /\ RowsOf(last.pre.experiences, last.person_id) # {}
    /\ RowsOf(last.pre.educations, last.person_id) # {}
    /\ RowsOf(last.pre.profile_history, last.person_id) # {}

\* the value the record carries for a scalar field of Profile
Incoming(field) ==
    CASE field = "name" -> Get(last.data, "name")
      [] field = "location" -> Get(last.data, "location")
      [] field = "current_job_title" -> Get(last.data, "job_title")
      [] field = "current_company" -> Get(last.data, "company")
      [] field = "about" -> Get(last.data, "about")

\* the fields whose incoming value is non-empty and differs from the stored one
DifferingFields(person) ==
    {f \in ScalarFields : Truthy(Incoming(f)) /\ Incoming(f) # person[f]}

\* the History rows the last call appended, without rowid and timestamp
AppendedHistory == db.profile_history \ last.pre.profile_history

HistoryFacts(rows) ==
    {[person_id |-> h.person_id, changed_field |-> h.changed_field,
      old_value |-> h.old_value, new_value |-> h.new_value] : h \in rows}

\* C4 as claimed: with trackChanges set, a committed update appends exactly
\* one History row per scalar field whose incoming value is non-empty and
\* differs, carrying the field's name, the previously stored value and the
\* incoming value, and no other History row.
C4_HistoryCarriesStoredValue ==
    (Updated /\ last.track_changes) =>
        LET person == PersonRow(last.pre, last.id)
            expected ==
                {[person_id |-> person.id, changed_field |-> f,
                  old_value |-> person[f], new_value |-> Incoming(f)] :
                    f \in DifferingFields(person)}
        IN  /\ HistoryFacts(AppendedHistory) = expected
            /\ Cardinality(AppendedHistory) = Cardinality(expected)
            /\ last.pre.profile_history \subseteq db.profile_history

\* C4 as amended: the same, with the old value NULL when the stored value
\* was the empty string.
C4_HistoryPerChangedField ==
    (Updated /\ last.track_changes) =>
        LET person == PersonRow(last.pre, last.id)
            expected ==
                {[person_id |-> person.id, changed_field |-> f,
                  old_value |-> IF person[f] = "" THEN None ELSE person[f],
                  new_value |-> Incoming(f)] :
                    f \in DifferingFields(person)}
        IN  /\ HistoryFacts(AppendedHistory) = expected
            /\ Cardinality(AppendedHistory) = Cardinality(expected)
            /\ last.pre.profile_history \subseteq db.profile_history

\* a tracked update that changed several fields and left another as it was
C4_Witness ==
    /\ Updated
    /\ last.track_changes
    /\ Cardinality(AppendedHistory) >= 2
    /\ \E f \in ScalarFields :
          /\ Truthy(Incoming(f))
          /\ Incoming(f) = PersonRow(last.pre, last.id)[f]
    /\ \E h \in AppendedHistory : h.old_value # None

\* C5: on the update path a scalar field whose incoming value is absent or
\* empty keeps its stored value, and no History row is appended for it.
C5_EmptyNeverOverwrites ==
    (Saved /\ last.path = "update") =>
        \A f \in ScalarFields :
            ~Truthy(Incoming(f)) =>
                /\ PersonRow(db, last.id)[f] = PersonRow(last.pre, last.id)[f]
                /\ \A h \in AppendedHistory : h.changed_field # f

\* a committed update whose absent or empty incoming value met a stored value,
\* and which changed another field
C5_Witness ==
    /\ Updated
    /\ \E f \in ScalarFields :
          ~Truthy(Incoming(f)) /\ Truthy(PersonRow(last.pre, last.id)[f])
    /\ \E g \in ScalarFields :
          PersonRow(db, last.id)[g] # PersonRow(last.pre, last.id)[g]

\* what a work-history entry of the record says: its title and organization
\* (empty when the key is missing), its other values (absent when missing)
ExperienceContent(person_id, entry) ==
    [person_id |-> person_id,
     position_title |->
         IF "position_title" \in DOMAIN entry THEN entry["position_title"] ELSE "",
     company_name |->
         IF "institution_name" \in DOMAIN entry THEN entry["institution_name"] ELSE "",
     location |-> Get(entry, "location"),
     from_date |-> Get(entry, "from_date"),
     to_date |-> Get(entry, "to_date"),
     duration |-> Get(entry, "duration"),
     description |-> Get(entry, "description")]

\* what an education entry of the record says; the record has no field of study
EducationContent(person_id, entry) ==
    [person_id |-> person_id,
     institution_name |->
         IF "institution_name" \in DOMAIN entry THEN entry["institution_name"] ELSE "",
     degree |-> Get(entry, "degree"),
     field_of_study |-> None,
     from_date |-> Get(entry, "from_date"),
     to_date |-> Get(entry, "to_date"),
     description |-> Get(entry, "description")]

IncomingExperiences(person_id) ==
    IF "experiences" \in DOMAIN last.data
    THEN [i \in 1..Len(last.data["experiences"]) |->
            ExperienceContent(person_id, last.data["experiences"][i])]
    ELSE <<>>

IncomingEducations(person_id) ==
    IF "educations" \in DOMAIN last.data
    THEN [i \in 1..Len(last.data["educations"]) |->
            EducationContent(person_id, last.data["educations"][i])]
    ELSE <<>>

\* C6: after an update that returned, a non-empty experiences list has
\* replaced the Profile's Experience rows (count and content are those of the
\* list), an empty or absent one has left them untouched; the same for
\* educations, whatever the experiences list holds.
C6_ChildrenReplacedOrKept ==
    Updated =>
        /\ IF IncomingExperiences(last.id) # <<>>
           THEN ContentsOf(db.experiences, last.id) = IncomingExperiences(last.id)
           ELSE RowsOf(db.experiences, last.id) = RowsOf(last.pre.experiences, last.id)
        /\ IF IncomingEducations(last.id) # <<>>
           THEN ContentsOf(db.educations, last.id) = IncomingEducations(last.id)
           ELSE RowsOf(db.educations, last.id) = RowsOf(last.pre.educations, last.id)

\* an update that replaced stored experiences by a different list and, giving
\* no educations, kept the stored ones
C6_Witness ==
    /\ Updated
    /\ RowsOf(last.pre.experiences, last.id) # {}
    /\ RowsOf(last.pre.educations, last.id) # {}
    /\ IncomingExperiences(last.id) # <<>>
    /\ IncomingExperiences(last.id) # ContentsOf(last.pre.experiences, last.id)
    /\ IncomingEducations(last.id) = <<>>
    /\ Len(IncomingExperiences(last.id)) # Cardinality(RowsOf(last.pre.experiences, last.id))

\* C7: a save of the record that the save just before it committed returns,
\* adds 1 to the touch counter, sets last-seen, appends no History row,
\* changes no scalar field and leaves the Experience and Education rows with
\* the same count and content.
C7_ResaveChangesNothing ==
    (Saved /\ last.repeat) =>
        /\ Updated
        /\ LET before == PersonRow(last.pre, last.id)
               after == PersonRow(db, last.id)
           IN  /\ after.scrape_count = before.scrape_count + 1
               /\ after.last_scraped_at = last.at
               /\ after.last_scraped_at > before.last_scraped_at
               /\ Scalars(after) = Scalars(before)
        /\ db.profile_history = last.pre.profile_history
        /\ ContentsOf(db.experiences, last.id) = ContentsOf(last.pre.experiences, last.id)
        /\ ContentsOf(db.educations, last.id) = ContentsOf(last.pre.educations, last.id)

\* the second of two saves of a record with experiences and educations
C7_Witness ==
    /\ Saved
    /\ last.repeat
    /\ Len(IncomingExperiences(last.id)) >= 2
    /\ IncomingEducations(last.id) # <<>>
    /\ last.track_changes

\* C8: the touch counter of every Profile row is the number of saves that
\* committed for it since it was created; a call never lowers it, and a save
\* that raised or a delete does not change it.
C8_TouchCountsCommits ==
    /\ \A p \in db.persons :
          p.id \in DOMAIN commits /\ p.scrape_count = commits[p.id]
    /\ \A p \in db.persons, q \in last.pre.persons :
          p.id = q.id =>
              /\ p.scrape_count >= q.scrape_count
              /\ (last.op = "delete" \/ last.result # "ok") =>
                     p.scrape_count = q.scrape_count

\* a rejected update of a Profile saved twice before
C8_Witness ==
    /\ Saved
    /\ last.result = "IntegrityError"
    /\ last.path = "update"
    /\ PersonRow(db, last.id).scrape_count = 2

\* C9: a save that returned and whose identifier matched no row has inserted
\* one Profile row, with touch counter 1 and active, one Experience row per
\* entry of the experiences list and one Education row per entry of the
\* educations list with the entries' values, and no History row.
C9_CreateInsertsGraph ==
    Created =>
        /\ \A q \in last.pre.persons : q.linkedin_url # LastUrl
        /\ \E p \in db.persons :
              /\ db.persons = last.pre.persons \cup {p}
              /\ p \notin last.pre.persons
              /\ p.id = last.id
              /\ p.linkedin_url = LastUrl
              /\ p.scrape_count = 1
              /\ p.is_active
              /\ ContentsOf(db.experiences, p.id) = IncomingExperiences(p.id)
              /\ ContentsOf(db.educations, p.id) = IncomingEducations(p.id)
        /\ last.pre.experiences \subseteq db.experiences
        /\ last.pre.educations \subseteq db.educations
        /\ Cardinality(db.experiences) =
              Cardinality(last.pre.experiences) + Len(IncomingExperiences(last.id))
        /\ Cardinality(db.educations) =
              Cardinality(last.pre.educations) + Len(IncomingEducations(last.id))
        /\ db.profile_history = last.pre.profile_history

\* a create with two experiences and an education beside a stored Profile
\* that has children and History
C9_Witness ==
    /\ Created
    /\ last.pre.persons # {}
    /\ last.pre.profile_history # {}
    /\ last.pre.experiences # {}
    /\ Len(IncomingExperiences(last.id)) = 2
    /\ Len(IncomingEducations(last.id)) = 1

\* C10: a save of a record whose linkedin_url is missing or empty raises
\* ValueError and leaves the four tables as they were.
C10_MissingUrlRejected ==
    (Saved /\ ~Truthy(LastUrl)) =>
        /\ last.result = "ValueError"
        /\ db = last.pre

\* a save with an empty linkedin_url, and one with none, on a database that
\* holds a Profile
C10_Witness ==
    /\ Saved
    /\ LastUrl = ""
    /\ "linkedin_url" \in DOMAIN last.data
    /\ last.result = "ValueError"
    /\ last.pre.persons # {}

-----------------------------------------------------------------------------
(* Sessions, deletes, reads                                                *)

Deleted == last.op = "delete" /\ last.found
SoftDeleted == Deleted /\ last.soft_delete
HardDeleted == Deleted /\ ~last.soft_delete

\* C11: a save of a record whose linkedin_url is missing or empty opens no
\* session at any point of the call.
C11_NoSessionOpened ==
    (Saved /\ ~Truthy(LastUrl)) => last.session.opened = 0

\* C12: after a hard delete of a stored Profile no row of the four tables
\* belongs to its id, and the rows of every other Profile are as they were.
C12_HardDeleteRemovesGraph ==
    HardDeleted =>
        /\ GraphOf(db, last.person_id) = NoRows
        /\ \A o \in (OwnersIn(last.pre) \cup OwnersIn(db)) \ {last.person_id} :
               GraphOf(db, o) = GraphOf(last.pre, o)

\* a hard delete of a Profile that has experiences, educations and History
C12_Witness ==
    /\ HardDeleted
    /\ \A table \in DOMAIN last.pre : GraphOf(last.pre, last.person_id)[table] # {}

\* C13: a soft delete of a stored Profile changes only that Profile's
\* is_active, to False: its other columns, its scrape_count and its
\* Experience, Education and History rows are as they were, and so is every
\* other Profile.
C13_SoftDeleteFlipsFlagOnly ==
    SoftDeleted =>
        LET old == PersonRow(last.pre, last.person_id)
        IN  /\ db.persons = (last.pre.persons \ {old})
                                \cup {[old EXCEPT !.is_active = FALSE]}
            /\ db.experiences = last.pre.experiences
            /\ db.educations = last.pre.educations
            /\ db.profile_history = last.pre.profile_history

-----------------------------------------------------------------------------
(* ProfileManager reads                                                    *)

\* the characters of the strings that are stored or searched for
Chars(text) ==
    CASE text = "" -> <<>>
      [] text = "A" -> <<"A">>
      [] text = "B" -> <<"B">>
      [] text = "X" -> <<"X">>
      [] text = "Y" -> <<"Y">>
      [] text = "a" -> <<"a">>
      [] text = "x" -> <<"x">>
      [] text = "b" -> <<"b">>
      [] text = "_" -> <<"_">>
      [] text = "Unknown" -> <<"U", "n", "k", "n", "o", "w", "n">>

\* lower() of one character
LowerChar(c) ==
    CASE c = "A" -> "a"
      [] c = "B" -> "b"
      [] c = "U" -> "u"
      [] c = "X" -> "x"
      [] c = "Y" -> "y"
      [] OTHER -> c

Lower(chars) == [i \in 1..Len(chars) |-> LowerChar(chars[i])]

\* text LIKE pattern: % stands for any run of characters, _ for any one
RECURSIVE Like(_, _)
Like(chars, pattern) ==
    IF pattern = <<>> THEN chars = <<>>
    ELSE IF Head(pattern) = "%"
         THEN \/ Like(chars, Tail(pattern))
              \/ chars # <<>> /\ Like(Tail(chars), pattern)
         ELSE /\ chars # <<>>
              /\ Head(pattern) = "_" \/ Head(pattern) = Head(chars)
              /\ Like(Tail(chars), Tail(pattern))

\* column.ilike(f'%{term}%'): lower(column) LIKE lower('%term%'); NULL
\* matches nothing
ILike(value, term) ==
    /\ value # None
    /\ Like(Lower(Chars(value)), Lower(<<"%">> \o Chars(term) \o <<"%">>))

\* the session of a read: obtained, queried, closed in the finally clause
ReadSession(d) == Status(Close(Begin(GetSession(d))))

\* get_profile_by_url: the rows .first() returns, none or one
GetProfileByUrl(d, linkedin_url) ==
    LET found == PersonByUrl(d, linkedin_url)
    IN  IF found = {} THEN {} ELSE {First(found)}

\* the rows the query of search_profiles selects
SearchMatches(d, query, company, location) ==
    {p \in d.persons :
        /\ p.is_active
        /\ Truthy(query) => ILike(p.name, query)
        /\ Truthy(company) => ILike(p.current_company, company)
        /\ Truthy(location) => ILike(p.location, location)}

\* search_profiles: the query has no ORDER BY, so LIMIT keeps any limit of
\* the selected rows; each member is a list the call may return, as a set
SearchProfiles(d, query, company, location, limit) ==
    LET matches == SearchMatches(d, query, company, location)
    IN  {rows \in SUBSET matches :
            Cardinality(rows) = Min({limit, Cardinality(matches)})}

\* the orderings of rows by changed_at, oldest first
RECURSIVE OldestFirst(_)
OldestFirst(rows) ==
    IF rows = {} THEN {<<>>}
    ELSE UNION {{<<r>> \o rest : rest \in OldestFirst(rows \ {r})} :
                  r \in {x \in rows : \A y \in rows : x.changed_at <= y.changed_at}}

\* the orderings of rows by changed_at, newest first
RECURSIVE NewestFirst(_)
NewestFirst(rows) ==
    IF rows = {} THEN {<<>>}
    ELSE UNION {{<<r>> \o rest : rest \in NewestFirst(rows \ {r})} :
                  r \in {x \in rows : \A y \in rows : x.changed_at >= y.changed_at}}

\* get_profile_history: each member is a list the call may return
GetProfileHistory(d, person_id) ==
    NewestFirst({h \in d.profile_history : h.person_id = person_id})

\* a listing that ignores active_only
GetAllProfilesIgnoringFlag(d, active_only) == d.persons

\* get_all_profiles: the rows of the list returned
GetAllProfiles(d, active_only) ==
    IF active_only THEN {p \in d.persons : p.is_active} ELSE d.persons

\* the arguments the reads are called with
DefaultLimit == 50
Limits == {0, 1, 2, DefaultLimit}
Queries == {None, "", "a", "_"}
Companies == {None, "x", "Y"}
Locations == {None, "b"}

Range(seq) == {seq[i] : i \in 1..Len(seq)}

\* C14: a deactivated Profile is in no result of search_profiles and not in
\* get_all_profiles(active_only=True), while get_profile_by_url for its
\* linkedin_url returns it and get_profile_history for its id returns its
\* History rows.
C14_InactiveHiddenFromSearchOnly ==
    \A p \in db.persons :
        ~p.is_active =>
            /\ \A query \in Queries, company \in Companies,
                  location \in Locations, limit \in Limits :
                   \A rows \in SearchProfiles(db, query, company, location, limit) :
                       p \notin rows
            /\ p \notin GetAllProfiles(db, TRUE)
            /\ GetProfileByUrl(db, p.linkedin_url) = {p}
            /\ \A rows \in GetProfileHistory(db, p.id) :
                   /\ Range(rows) = RowsOf(db.profile_history, p.id)
                   /\ Len(rows) = Cardinality(Range(rows))

\* a soft delete of an active Profile that has History: the search found it
\* before, the listing of all profiles still holds it
C14_Witness ==
    /\ SoftDeleted
    /\ last.pre.persons # db.persons
    /\ RowsOf(db.profile_history, last.person_id) # {}
    /\ PersonRow(db, last.person_id) \in GetAllProfiles(db, FALSE)
    /\ PersonRow(last.pre, last.person_id) \in
           UNION SearchProfiles(last.pre, None, None, None, DefaultLimit)

\* C15: a delete, soft or hard, of an id that no Profile has returns without
\* raising and leaves the four tables as they were.
C15_DeleteOfMissingIdIsNoOp ==
    (last.op = "delete" /\ \A p \in last.pre.persons : p.id # last.person_id) =>
        /\ last.result = "ok"
        /\ db = last.pre

\* a hard delete of an id that is not stored, on a database that holds a
\* Profile with children
C15_Witness ==
    /\ last.op = "delete"
    /\ ~last.soft_delete
    /\ ~last.found
    /\ last.pre.persons # {}
    /\ last.pre.experiences # {}
    /\ \A p \in last.pre.persons : p.id # last.person_id

\* a session that has been committed or rolled back and then closed, with
\* nothing pending
Released(status) ==
    /\ ~status.is_open
    /\ status.tx \in {"committed", "rolledback"}
    /\ status.pending = 0

\* C16: when save_profile or delete_profile has returned or raised, and when
\* a read of the repository, the analytics or the statistics has returned,
\* the one session the call opened is closed, its transaction committed or
\* rolled back, nothing pending; a call that raised has left the tables as
\* they were.
C16_SessionReleased ==
    /\ last.op # "none" =>
           /\ last.session.opened = 1
           /\ Released(last.session)
           /\ last.result # "ok" => db = last.pre
    /\ ReadSession(db).opened = 1
    /\ Released(ReadSession(db))

\* a save that raised IntegrityError after its session had written a Person
\* row and an Experience row
C16_Witness ==
    /\ Saved
    /\ last.result = "IntegrityError"
    /\ last.path = "create"
    /\ Len(IncomingExperiences(last.id)) = 2
    /\ ~last.session.is_open
    /\ last.session.tx = "rolledback"
    /\ last.pre.persons # {}

\* C17: a History row that was committed before a call is in the table,
\* column for column, after it, unless the call is the hard delete of the
\* Profile it belongs to.
C17_HistoryAppendOnly ==
    \A h \in last.pre.profile_history :
        \/ h \in db.profile_history
        \/ HardDeleted /\ h.person_id = last.person_id

\* an update that replaces the children of a Profile that has History and
\* appends a History row
C17_Witness ==
    /\ Updated
    /\ RowsOf(last.pre.profile_history, last.id) # {}
    /\ db.profile_history # last.pre.profile_history
    /\ HasItems(last.data, "experiences")

\* C18: a save of a record with a new linkedin_url whose name, location,
\* job_title, company and about are each missing or None returns normally
\* and stores the Profile.
C18_CreateAcceptsMissingFields ==
    (/\ Saved
     /\ Truthy(LastUrl)
     /\ PersonByUrl(last.pre, LastUrl) = {}
     /\ \A k \in {"name"} \cup OtherKeys : Get(last.data, k) = None) =>
        /\ last.result = "ok"
        /\ PersonByUrl(db, LastUrl) # {}

\* text contains term, letter case ignored
Contains(value, term) ==
    /\ value # None
    /\ LET text == Lower(Chars(value))
           part == Lower(Chars(term))
       IN  \E i \in 0..(Len(text) - Len(part)) :
               SubSeq(text, i + 1, i + Len(part)) = part

\* C19: every list search_profiles returns holds only active Profiles, each
\* containing every supplied term in the corresponding column with letter
\* case ignored, and at most limit of them; with no term supplied it holds
\* limit active Profiles, or all of them when there are fewer.
C19_SearchReturnsMatches ==
    \A query \in Queries, company \in Companies,
       location \in Locations, limit \in Limits :
        \A rows \in SearchProfiles(db, query, company, location, limit) :
            /\ \A p \in rows :
                   /\ p \in db.persons
                   /\ p.is_active
                   /\ Truthy(query) => Contains(p.name, query)
                   /\ Truthy(company) => Contains(p.current_company, company)
                   /\ Truthy(location) => Contains(p.location, location)
            /\ Cardinality(rows) <= limit
            /\ (~Truthy(query) /\ ~Truthy(company) /\ ~Truthy(location)) =>
                   Cardinality(rows) =
                       Min({limit, Cardinality(GetAllProfiles(db, TRUE))})

-----------------------------------------------------------------------------
(* AnalyticsManager                                                        *)

\* filter(is_active == True, column != None).group_by(column) with
\* count(Person.id): one pair per value of the column
GroupCounts(d, column) ==
    LET rows == {p \in d.persons : p.is_active /\ p[column] # None}
    IN  {[key |-> k, count |-> Cardinality({p \in rows : p[column] = k})] :
            k \in {p[column] : p \in rows}}

\* the orderings of pairs by count, largest first
RECURSIVE CountDescending(_)
CountDescending(pairs) ==
    IF pairs = {} THEN {<<>>}
    ELSE UNION {{<<g>> \o rest : rest \in CountDescending(pairs \ {g})} :
                  g \in {x \in pairs : \A y \in pairs : x.count >= y.count}}

\* .order_by(count.desc()).limit(limit).all(): each member is a list the call
\* may return
TopBy(d, column, limit) ==
    {SubSeq(pairs, 1, Min({limit, Len(pairs)})) :
        pairs \in CountDescending(GroupCounts(d, column))}

GetTopCompanies(d, limit) == TopBy(d, "current_company", limit)
GetTopLocations(d, limit) == TopBy(d, "location", limit)
GetTopPositions(d, limit) == TopBy(d, "current_job_title", limit)

\* the lists the three calls may return
TopLists(d, limit) ==
    [current_company |-> GetTopCompanies(d, limit),
     location |-> GetTopLocations(d, limit),
     current_job_title |-> GetTopPositions(d, limit)]

\* C20: every list get_top_companies, get_top_locations or get_top_positions
\* returns has at most limit pairs, ordered by count descending, each count
\* the number of active Profiles with the pair's key in the column, and no
\* key that is None or the empty string.
C20_TopListsCountActive ==
    \A limit \in Limits : \A column \in DOMAIN TopLists(db, limit) :
        \A pairs \in TopLists(db, limit)[column] :
            /\ Len(pairs) <= limit
            /\ \A i \in 1..Len(pairs) :
                   /\ pairs[i].count =
                          Cardinality({p \in db.persons :
                              p.is_active /\ p[column] = pairs[i].key})
                   /\ \A j \in 1..Len(pairs) :
                          i < j => pairs[i].count >= pairs[j].count
                   /\ pairs[i].key # None
                   /\ pairs[i].key # ""

-----------------------------------------------------------------------------
(* History reads, frames, resaves                                          *)

\* C21: every list get_profile_history(person_id) returns holds each History
\* row of that person_id once and no other row, ordered by changed_at from
\* newest to oldest.
C21_HistoryNewestFirst ==
    \A person_id \in PersonIds :
        \A rows \in GetProfileHistory(db, person_id) :
            /\ Range(rows) = RowsOf(db.profile_history, person_id)
            /\ Len(rows) = Cardinality(Range(rows))
            /\ \A i, j \in 1..Len(rows) :
                   i < j => rows[i].changed_at >= rows[j].changed_at

\* a Profile whose History rows were appended by two saves at different times
C21_Witness ==
    \E person_id \in PersonIds :
        \E rows \in GetProfileHistory(db, person_id) :
            /\ Len(rows) = 2
            /\ rows[1].changed_at > rows[2].changed_at

\* C23: an update with track_changes = False that returned has appended no
\* History row and has otherwise left what the same save with track_changes
\* = True leaves: each scalar whose incoming value is non-empty and differs
\* is overwritten, scrape_count is one more, last_scraped_at is the time of
\* the save, non-empty child lists are replaced.
C23_UntrackedUpdate ==
    (Updated /\ ~last.track_changes) =>
        LET old == PersonRow(last.pre, last.id)
            new == PersonRow(db, last.id)
            tracked == SaveResult(last.pre, last.data, TRUE, last.at)
        IN  /\ db.profile_history = last.pre.profile_history
            /\ tracked.result = "ok"
            /\ db = [tracked.db EXCEPT !.profile_history = last.pre.profile_history]
            /\ \A f \in ScalarFields :
                   new[f] = IF f \in DifferingFields(old) THEN Incoming(f)
                            ELSE old[f]
            /\ new.scrape_count = old.scrape_count + 1
            /\ new.last_scraped_at = last.at

\* an untracked update that changes the company and replaces the stored
\* children, where the tracked save would have appended a History row
C23_Witness ==
    /\ Updated
    /\ ~last.track_changes
    /\ DifferingFields(PersonRow(last.pre, last.id)) # {}
    /\ RowsOf(last.pre.experiences, last.id) # {}
    /\ HasItems(last.data, "experiences")
    /\ SaveResult(last.pre, last.data, TRUE, last.at).db.profile_history
           # last.pre.profile_history

\* C24: a Person row that was stored before a call has, after it, the same
\* id, linkedin_url and first_scraped_at, unless the call is the hard delete
\* of that row.
C24_IdentityKept ==
    \A p \in last.pre.persons :
        \/ HardDeleted /\ p.id = last.person_id
        \/ \E q \in db.persons :
               /\ q.id = p.id
               /\ q.linkedin_url = p.linkedin_url
               /\ q.first_scraped_at = p.first_scraped_at

\* an update, at a later time, of a Profile that was deactivated after its
\* creation
C24_Witness ==
    /\ Updated
    /\ ~PersonRow(last.pre, last.id).is_active
    /\ PersonRow(db, last.id).first_scraped_at < last.at
    /\ PersonRow(db, last.id).last_scraped_at = last.at

\* C25: a save for a linkedin_url leaves every row that belongs to another
\* Profile as it was, whether it creates, updates, replaces the children or
\* raises.
C25_SaveLeavesOthers ==
    Saved =>
        \A o \in (OwnersIn(last.pre) \cup OwnersIn(db)) \ {last.id} :
            GraphOf(db, o) = GraphOf(last.pre, o)

\* an update that replaces the experiences and educations of one Profile
\* while another Profile has experiences and educations
C25_Witness ==
    /\ Updated
    /\ HasItems(last.data, "experiences")
    /\ HasItems(last.data, "educations")
    /\ RowsOf(last.pre.experiences, last.id) # {}
    /\ \E o \in OwnersIn(db) \ {last.id} :
           /\ GraphOf(db, o).experiences # {}
           /\ GraphOf(db, o).educations # {}

\* the stored row a save's linkedin_url matches is a deactivated one
SavedOverInactive ==
    /\ Saved
    /\ Truthy(LastUrl)
    /\ \E p \in PersonByUrl(last.pre, LastUrl) : ~p.is_active

\* C27: a save whose linkedin_url matches a deactivated Profile takes the
\* update path on that row: there is still one row for the url, it is still
\* inactive and in no result of search_profiles or
\* get_all_profiles(active_only=True); when the save returns, scrape_count is
\* one more, the scalars that differ are overwritten, non-empty child lists
\* are replaced and the tracked changes are appended to History.
C27_ResaveKeepsInactive ==
    SavedOverInactive =>
        LET old == First(PersonByUrl(last.pre, LastUrl))
            new == PersonRow(db, old.id)
        IN  /\ last.path = "update"
            /\ last.id = old.id
            /\ PersonByUrl(db, LastUrl) = {new}
            /\ ~new.is_active
            /\ new \notin GetAllProfiles(db, TRUE)
            /\ \A query \in Queries, company \in Companies,
                  location \in Locations, limit \in Limits :
                   new \notin UNION SearchProfiles(db, query, company, location, limit)
            /\ last.result = "ok" =>
                   /\ new.scrape_count = old.scrape_count + 1
                   /\ new.last_scraped_at = last.at
                   /\ \A f \in ScalarFields :
                          new[f] = IF f \in DifferingFields(old) THEN Incoming(f)
                                   ELSE old[f]
                   /\ IncomingExperiences(old.id) # <<>> =>
                          ContentsOf(db.experiences, old.id) = IncomingExperiences(old.id)
                   /\ IncomingEducations(old.id) # <<>> =>
                          ContentsOf(db.educations, old.id) = IncomingEducations(old.id)
                   /\ Cardinality(AppendedHistory) =
                          IF last.track_changes
                          THEN Cardinality(DifferingFields(old)) ELSE 0

\* a tracked save over a deactivated Profile that changes its company and
\* gives it experiences
C27_Witness ==
    /\ SavedOverInactive
    /\ Updated
    /\ last.track_changes
    /\ DifferingFields(PersonRow(last.pre, last.id)) # {}
    /\ HasItems(last.data, "experiences")
    /\ AppendedHistory # {}

\* the last call created a Profile for a linkedin_url that a hard delete had
\* removed
CreatedAfterHardDelete ==
    /\ Created
    /\ \E g \in deleted : \E p \in g.persons : p.linkedin_url = LastUrl

\* C28: a save for a linkedin_url whose Profile was hard-deleted takes the
\* create path; the new Profile has scrape_count 1 and first_scraped_at of
\* the save, its scalars are those of the record, it has no History row,
\* and its children are those of the record, written by this save: no row
\* of the deleted Profile is back.
C28_CreateAfterHardDelete ==
    (/\ Committed
     /\ \E g \in deleted : \E p \in g.persons : p.linkedin_url = LastUrl
     /\ PersonByUrl(last.pre, LastUrl) = {}) =>
        LET new == PersonRow(db, last.id)
        IN  /\ last.path = "create"
            /\ PersonByUrl(db, LastUrl) = {new}
            /\ new.scrape_count = 1
            /\ new.first_scraped_at = last.at
            /\ new.is_active
            /\ Scalars(new) = Scalars(NewPerson(last.data, last.at))
            /\ RowsOf(db.profile_history, new.id) = {}
            /\ ContentsOf(db.experiences, new.id) = IncomingExperiences(new.id)
            /\ ContentsOf(db.educations, new.id) = IncomingEducations(new.id)
            /\ \A r \in RowsOf(db.experiences, new.id) \cup RowsOf(db.educations, new.id) :
                   r.created_at = last.at

\* a create without children that reuses the rowid of a hard-deleted Profile
\* of the same linkedin_url, which had another company, experiences and
\* educations
C28_Witness ==
    /\ CreatedAfterHardDelete
    /\ \E g \in deleted : \E p \in g.persons :
           /\ p.linkedin_url = LastUrl
           /\ p.id = last.id
           /\ p.current_company # PersonRow(db, last.id).current_company
           /\ g.experiences # {}
           /\ g.educations # {}
    /\ RowsOf(db.experiences, last.id) = {}
    /\ RowsOf(db.educations, last.id) = {}

-----------------------------------------------------------------------------
(* save_profile calls that overlap                                         *)
(*                                                                         *)
(* The engine is SQLite: a SELECT holds no lock after it returns, the first *)
(* INSERT, UPDATE or DELETE of a session begins its transaction and takes  *)
(* the write lock, which a second writer waits for; other connections read *)
(* the committed database until the COMMIT.                                *)

\* the session holds the row as the lookup loaded it
WithLoaded(s, current, loaded) ==
    [s EXCEPT !.st.persons = (@ \ {current}) \cup {loaded}]

\* the UPDATE of the flush sets the columns whose value differs from the one
\* loaded; the other columns of the stored row stay
Written(s, current, loaded) ==
    LET row == PersonRow(s.st, loaded.id)
        merged == [f \in DOMAIN current |->
                      IF row[f] # loaded[f] THEN row[f] ELSE current[f]]
    IN  [s EXCEPT !.st.persons = (@ \ {row}) \cup {merged}]

\* _update_profile up to the bulk delete of the experiences, which flushes
\* the UPDATE of the Person and the History rows
UpdateFlushed(s, person, data, track_changes, t) ==
    LET changes == Changes(person, data)
        updated == Touch(WithChanges(person, changes), t)
        s1 == [s EXCEPT !.st.persons = (@ \ {person}) \cup {updated}]
        s2 == AddAll(s1, "profile_history",
                     HistoryOf(person, changes, track_changes, t))
    IN  ReplaceExperiences(s2, person, data, t)

\* the session of the call w at its first flush, on the committed database d:
\* the Person row inserted by _create_profile, or the update up to the bulk
\* delete of the experiences
Flushed(d, w) ==
    LET s0 == Begin(GetSession(d))
    IN  IF w.existing = {}
        THEN Flush(Add(s0, "persons", NewPerson(w.data, w.at)))
        ELSE LET loaded == First(w.existing)
                 current == PersonRow(d, loaded.id)
             IN  Written(UpdateFlushed(WithLoaded(s0, current, loaded), loaded,
                                       w.data, w.track_changes, w.at),
                         current, loaded)

\* the session of the call w after its commit
Finished(d, w) ==
    LET s0 == Begin(GetSession(d))
    IN  IF w.existing = {}
        THEN Commit(CreateProfile(s0, w.data, w.at))
        ELSE LET loaded == First(w.existing)
                 current == PersonRow(d, loaded.id)
                 s1 == UpdateProfile(WithLoaded(s0, current, loaded), loaded,
                                     w.data, w.track_changes, w.at)
             IN  IF s1.err # "" THEN s1
                 ELSE Commit(Written(s1, current, loaded))

\* other connections reading what a session wrote and has not committed
ReadUncommitted(d, s) == s.st

\* what the other connections read while session s has uncommitted writes
Isolated(d, s) == d

\* the record of a call that returned or raised
Outcome(w, d, result, s) ==
    [NoCall EXCEPT !.op = "save", !.data = w.data,
                   !.track_changes = w.track_changes, !.result = result,
                   !.path = IF w.existing = {} THEN "create" ELSE "update",
                   !.id = IF w.existing = {} THEN NextId(d.persons)
                          ELSE First(w.existing).id,
                   !.pre = d, !.at = w.at,
                   !.session = Status(Close(s))]

\* the records of the overlapping calls: one subject, a company that changes,
\* children absent, accepted, or rejected by the database
InFlightData ==
    {u @@ n @@ c @@ e :
        u \in Key("linkedin_url", {"u1"}),
        n \in Key("name", {"A"}),
        c \in Key("company", {"X", "Y"}),
        e \in {[experiences |-> <<>>, educations |-> <<>>],
               [experiences |-> <<Exp1, Exp2>>, educations |-> <<Edu1>>],
               [experiences |-> <<Exp1, ExpNull>>, educations |-> <<Edu1>>]}}

\* save_profile in session k, to the lookup: the session is obtained, the
\* linkedin_url is there, the row is looked up
Lookup(k, data, track_changes) ==
    /\ inflight[k].pc = "idle"
    /\ now < MaxTime
    /\ inflight' = [inflight EXCEPT ![k] =
          [pc |-> "looked", data |-> data, track_changes |-> track_changes,
           existing |-> PersonByUrl(db, data["linkedin_url"]), at |-> now,
           pre |-> db, s |-> Begin(GetSession(db))]]
    /\ now' = now + 1
    /\ UNCHANGED <<db, last, commits, deleted>>

\* save_profile in session k, to its first flush: it waits for the write
\* lock; an INSERT that is rejected raises, the except clause rolls back
Write(k) ==
    LET w == inflight[k]
        f == Flushed(db, w)
    IN  /\ w.pc = "looked"
        /\ \A j \in Sessions \ {k} : inflight[j].pc # "flushed"
        /\ IF f.err # ""
           THEN /\ db' = Rollback(db, f)
                /\ last' = Outcome(w, db, f.err, RolledBack(f))
                /\ inflight' = [inflight EXCEPT ![k] = Idle]
           ELSE /\ db' = Isolated(db, f)
                /\ last' = last
                /\ inflight' = [inflight EXCEPT ![k] =
                                   [w EXCEPT !.pc = "flushed", !.pre = db, !.s = f]]
        /\ UNCHANGED <<now, commits, deleted>>

\* save_profile in session k, from its first flush to the end: the rest of
\* the writes and the commit, or the rollback when a flush raises
Finish(k) ==
    LET w == inflight[k]
        s == Finished(w.pre, w)
    IN  /\ w.pc = "flushed"
        /\ IF s.err # ""
           THEN /\ db' = Rollback(w.pre, s)
                /\ last' = Outcome(w, w.pre, s.err, RolledBack(s))
                /\ commits' = commits
           ELSE /\ db' = s.st
                /\ last' = Outcome(w, w.pre, "ok", Refresh(s))
                /\ commits' =
                      IF w.existing = {} THEN (last'.id :> 1) @@ commits
                      ELSE [commits EXCEPT ![last'.id] = @ + 1]
        /\ inflight' = [inflight EXCEPT ![k] = Idle]
        /\ UNCHANGED <<now, deleted>>

\* track_changes is left to its default, True
NextInFlight ==
    \E k \in Sessions :
        \/ \E data \in InFlightData : Lookup(k, data, TRUE)
        \/ Write(k)
        \/ Finish(k)

SpecInFlight == Init /\ [][NextInFlight]_vars

\* session k has flushed writes that are not committed
InFlight(k) == inflight[k].pc = "flushed"

\* C22: while a save has flushed writes and has not committed, the database
\* the other sessions read is the one before the save, whole; the database
\* after the commit holds the save's writes, whole: the created Profile with
\* its children, the updated Profile with its replaced children and a
\* History row for every scalar that changed.
C22_InFlightUnseen ==
    /\ \A k \in Sessions : InFlight(k) => db = inflight[k].pre
    /\ Created =>
           /\ ContentsOf(db.experiences, last.id) = IncomingExperiences(last.id)
           /\ ContentsOf(db.educations, last.id) = IncomingEducations(last.id)
    /\ Updated =>
           LET old == PersonRow(last.pre, last.id)
               new == PersonRow(db, last.id)
           IN  /\ IncomingExperiences(last.id) # <<>> =>
                      ContentsOf(db.experiences, last.id) = IncomingExperiences(last.id)
               /\ IncomingEducations(last.id) # <<>> =>
                      ContentsOf(db.educations, last.id) = IncomingEducations(last.id)
               /\ \A f \in ScalarFields :
                      (last.track_changes /\ new[f] # old[f]) =>
                          \E h \in AppendedHistory :
                              /\ h.person_id = last.id
                              /\ h.changed_field = f
                              /\ h.new_value = new[f]

\* an update in flight that has changed the company, inserted the History
\* row and deleted the stored experiences, the new ones still pending, while
\* the other session has looked the Profile up
C22_Witness ==
    \E k \in Sessions :
        LET w == inflight[k]
        IN  /\ InFlight(k)
            /\ w.existing # {}
            /\ RowsOf(db.experiences, First(w.existing).id) # {}
            /\ RowsOf(w.s.st.experiences, First(w.existing).id) = {}
            /\ Len(w.s.pending) = 2
            /\ w.s.st.profile_history # db.profile_history
            /\ w.s.st.persons # db.persons
            /\ \E j \in Sessions \ {k} : inflight[j].pc = "looked"

\* the last call took the create path for a linkedin_url that another call
\* had stored by the time of its INSERT
LostRace ==
    /\ Saved
    /\ last.path = "create"
    /\ PersonByUrl(last.pre, LastUrl) # {}

\* C26: when two saves have both looked up a linkedin_url that is not stored,
\* one row is committed for it; the call whose INSERT comes second raises
\* IntegrityError, its session is rolled back and closed, and the tables
\* are as the first call committed them: one row for the url and no child
\* row but that row's.
C26_OneCreateWins ==
    /\ \A p, q \in db.persons : p.linkedin_url = q.linkedin_url => p = q
    /\ LostRace =>
           /\ last.result = "IntegrityError"
           /\ db = last.pre
           /\ Released(last.session)
           /\ Cardinality(PersonByUrl(db, LastUrl)) = 1
           /\ \A r \in db.experiences \cup db.educations \cup db.profile_history :
                  \E p \in PersonByUrl(db, LastUrl) : r.person_id = p.id

\* the second of two overlapping creates, both with children, has raised; the
\* stored Profile has the children of the first
C26_Witness ==
    /\ LostRace
    /\ last.result = "IntegrityError"
    /\ HasItems(last.data, "experiences")
    /\ db.experiences # {}
    /\ db.educations # {}
    /\ Get(last.data, "company") # First(PersonByUrl(db, LastUrl)).current_company

====
